---- MODULE Spec2Model ----
(***************************************************************************)
(* Model of filmalize's conversion core (src/filmalize/models.py): a       *)
(* Container with its Streams and SubtitleFiles, the selection of streams, *)
(* Stream.build_options and Container.build_command, together with the    *)
(* two selection entry points of the command line layer                    *)
(* (menus.select_streams and cli_models.SelectStreams.convert), and of     *)
(* the tracking of launched jobs: Container.progress, cli.get_progress     *)
(* and the poll loop of cli.convert.                                       *)
(*                                                                         *)
(* Command tokens are records [s, a, b]:                                   *)
(*   Lit(s)         the literal token s                                    *)
(*   MapSpec(i, n)  the token 'i:n' of a -map directive                    *)
(*   Opt(s, n)      the token 's:n', e.g. '-c:a:1' or '-b:a:1'             *)
(*   Str(n)         str(n)                                                 *)
(*   Kbit(n)        '{}k'.format(n)                                        *)
(***************************************************************************)
EXTENDS Integers, Sequences, FiniteSets, TLC

VARIABLES streams, selected, subtitle_files, command, calls, error,
          argument, returned,
          line_list, process, microseconds, progress, running, it,
          pr_bar, bars, messages, pc, polled,
          file_list, probes, pending, containers, ended, failed,
          menu, current, handles, launches, edits

(* The container, its streams and the command built from them. *)
containerVars == <<streams, selected, subtitle_files, command, calls, error>>

(* The argument and the outcome of the last call of a method that leaves   *)
(* the container as it is.                                                 *)
queryVars == <<argument, returned>>

(* The jobs of cli.convert: the progress feed read last, the ffmpeg        *)
(* processes, the containers' durations and recorded progress, the list    *)
(* of tracked jobs with the position of the loop in it, the progress bars, *)
(* the warnings written, the place of cli.convert in its code and the jobs *)
(* that the current pass of its for loop has polled.                       *)
convertVars == <<line_list, process, microseconds, progress, running, it,
                 pr_bar, bars, messages, pc, polled>>

(* cli.build_containers: the files given and what ffprobe answers for      *)
(* each, the probes not yet completed, the containers collected, the       *)
(* files reported as failed and the way the call ended.                    *)
buildVars == <<file_list, probes, pending, containers, ended, failed>>

(* menus.main_menu: the menu shown, the position of the for loop in the    *)
(* containers, and for each container its process handle, the number of    *)
(* its launches and the number of its visits of the edit menu.             *)
menuVars == <<menu, current, handles, launches, edits>>

(* The variables of the command line run ahead of the poll loop. *)
frontVars == <<buildVars, menuVars>>

vars == <<containerVars, queryVars, convertVars, frontVars>>

----------------------------------------------------------------------------
(* Bounds of the model *)

MaxStreams == 2
MaxIndex == 2
MaxSel == 2
MaxSubs == 2
MaxNumber == 2
MaxLines == 2
MaxOut == 3
MaxJobs == 2
MaxDuration == 2
MaxFiles == 2
MaxEdits == 2

----------------------------------------------------------------------------
(* defaults.py *)

C_AUDIO == "aac"
C_VIDEO == "h264"
C_SUBS == "mov_text"
BITRATE == 384
CRF == 18

(* A codec that is none of the defaults (FAKE_CODEC of the tests). *)
FAKE_CODEC == "fake"

(* Python's None and the empty string '' of StreamLabel, as integers that  *)
(* are no crf, bitrate or index.                                           *)
None == -1
Empty == -2

(* Python truthiness of an optional number: None, '' and 0 are falsy. *)
Truthy(x) == x /= None /\ x /= Empty /\ x /= 0

StreamTypes == {"audio", "video", "subtitle", "data"}
OutputTypes == {"audio", "video", "subtitle"}
Codecs == {C_AUDIO, C_VIDEO, C_SUBS, FAKE_CODEC}

----------------------------------------------------------------------------
(* Tokens *)

Lit(s) == [s |-> s, a |-> None, b |-> None]
MapSpec(i, n) == [s |-> "i:n", a |-> i, b |-> n]
Opt(s, n) == [s |-> s, a |-> n, b |-> None]
Str(n) == [s |-> "str", a |-> n, b |-> None]
Kbit(n) == [s |-> "k", a |-> n, b |-> None]

(* Stream.option_summary: None, 'copy', 'transcode -> <codec>, crf=<n>',   *)
(* 'transcode -> <codec>, bitrate=<n>Kib/s' or 'transcode -> <codec>'.     *)
NoSummary == [s |-> "None", codec |-> "", n |-> None]
CopySummary == [s |-> "copy", codec |-> "", n |-> None]
TranscodeSummary(codec, n) == [s |-> "transcode", codec |-> codec, n |-> n]

----------------------------------------------------------------------------
(* Stream *)

Stream(index, type, codec, custom_crf, custom_bitrate, bitrate) ==
    [index |-> index, type |-> type, codec |-> codec,
     custom_crf |-> custom_crf, custom_bitrate |-> custom_bitrate,
     bitrate |-> bitrate, option_summary |-> NoSummary]

(* A subtitle branch that passes a stream of the default subtitle codec    *)
(* through.                                                                *)
subtitle_options_copy(stream, number) ==
    IF stream.codec = C_SUBS
    THEN [options |-> <<Opt("-c:s", number), Lit("copy")>>,
          summary |-> CopySummary]
    ELSE [options |-> <<Opt("-c:s", number), Lit(C_SUBS)>>,
          summary |-> TranscodeSummary(C_SUBS, None)]

(* The directive of the first subtitle slot, whatever the number given. *)
subtitle_options_first(stream, number) ==
    [options |-> <<Opt("-c:s", 0), Lit(C_SUBS)>>,
     summary |-> TranscodeSummary(C_SUBS, None)]

(* The branch of Stream.build_options for a stream of type 'subtitle'. *)
subtitle_options(stream, number) ==
    [options |-> <<Opt("-c:s", number), Lit(C_SUBS)>>,
     summary |-> TranscodeSummary(C_SUBS, None)]

(* Stream.build_options(number): the options and the new option_summary. *)
build_options(stream, number) ==
    IF stream.type = "video" THEN
        IF Truthy(stream.custom_crf) \/ stream.codec /= C_VIDEO THEN
            LET crf == IF Truthy(stream.custom_crf) THEN stream.custom_crf
                       ELSE CRF
            IN  [options |-> <<Opt("-c:v", number), Lit("libx264"),
                               Lit("-preset"), Lit("slow"), Lit("-crf"),
                               Str(crf), Lit("-pix_fmt"), Lit("yuv420p")>>,
                 summary |-> TranscodeSummary(C_VIDEO, crf)]
        ELSE [options |-> <<Opt("-c:v", number), Lit("copy")>>,
              summary |-> CopySummary]
    ELSE IF stream.type = "audio" THEN
        IF Truthy(stream.custom_bitrate) \/ stream.codec /= C_AUDIO THEN
            LET bitrate == IF Truthy(stream.custom_bitrate)
                           THEN stream.custom_bitrate
                           ELSE IF Truthy(stream.bitrate) THEN stream.bitrate
                           ELSE BITRATE
            IN  [options |-> <<Opt("-c:a", number), Lit(C_AUDIO),
                               Opt("-b:a", number), Kbit(bitrate)>>,
                 summary |-> TranscodeSummary(C_AUDIO, bitrate)]
        ELSE [options |-> <<Opt("-c:a", number), Lit("copy")>>,
              summary |-> CopySummary]
    ELSE IF stream.type = "subtitle" THEN subtitle_options(stream, number)
    ELSE [options |-> <<>>, summary |-> stream.option_summary]

----------------------------------------------------------------------------
(* SubtitleFile *)

SubtitleFile(file_name, encoding) ==
    [file_name |-> file_name, encoding |-> encoding,
     options |-> <<Lit(C_SUBS)>>,
     option_summary |-> TranscodeSummary(C_SUBS, None)]

----------------------------------------------------------------------------
(* Container *)

Range(seq) == {seq[k] : k \in 1..Len(seq)}

(* Python's 'x in list' *)
Contains(seq, x) == x \in Range(seq)

(* Container.streams_dict: the streams keyed by their indexes; a later     *)
(* stream replaces an earlier one of the same index.                       *)
streams_dict(strs) ==
    [i \in {strs[k].index : k \in 1..Len(strs)} |->
        LET last == CHOOSE k \in 1..Len(strs) :
                        /\ strs[k].index = i
                        /\ \A j \in 1..Len(strs) : strs[j].index = i => j <= k
        IN  strs[last]]

(* Container.default_streams: the loop over the streams from position k,   *)
(* with the flags audio and video.                                         *)
RECURSIVE DefaultStreamsFrom(_, _, _, _)
DefaultStreamsFrom(strs, k, audio, video) ==
    IF k > Len(strs) THEN <<>>
    ELSE IF ~audio /\ strs[k].type = "audio"
         THEN <<strs[k].index>> \o DefaultStreamsFrom(strs, k + 1, TRUE, video)
    ELSE IF ~video /\ strs[k].type = "video"
         THEN <<strs[k].index>> \o DefaultStreamsFrom(strs, k + 1, audio, TRUE)
    ELSE DefaultStreamsFrom(strs, k + 1, audio, video)

(* The video flag set from the start: no video stream is ever taken. *)
default_streams_audio(strs) == DefaultStreamsFrom(strs, 1, FALSE, TRUE)

default_streams(strs) == DefaultStreamsFrom(strs, 1, FALSE, FALSE)

(* The test of the index alone, without the test of the stream's type. *)
acceptable_streams_any_type(strs, index_list) ==
    \A k \in 1..Len(index_list) :
        index_list[k] \in DOMAIN streams_dict(strs)

(* Container.acceptable_streams: TRUE when it returns True, FALSE when it  *)
(* raises ValueError.                                                      *)
acceptable_streams(strs, index_list) ==
    \A k \in 1..Len(index_list) :
        /\ index_list[k] \in DOMAIN streams_dict(strs)
        /\ streams_dict(strs)[index_list[k]].type \in OutputTypes

(* A counter shared by the kinds, in place of one counter per kind. *)
NextNumberShared(stream_number, type) ==
    [t \in DOMAIN stream_number |-> stream_number[t] + 1]

(* stream_number[stream.type] += 1 *)
NextNumber(stream_number, type) ==
    [stream_number EXCEPT ![type] = @ + 1]

(* The loop 'for stream in output_streams' of Container.build_command from *)
(* position k of the streams: st holds the streams (with their             *)
(* option_summary), the options extended so far, the calls of              *)
(* build_options made so far, stream_number and the error raised.          *)
RECURSIVE OutputStreamsFrom(_, _, _)
OutputStreamsFrom(sel, k, st) ==
    IF k > Len(st.streams) THEN st
    ELSE IF ~Contains(sel, st.streams[k].index)
         THEN OutputStreamsFrom(sel, k + 1, st)
    ELSE IF st.streams[k].type \notin DOMAIN st.stream_number
         THEN [st EXCEPT !.error = "KeyError"]
    ELSE LET stream == st.streams[k]
             number == st.stream_number[stream.type]
             built == build_options(stream, number)
         IN  OutputStreamsFrom(sel, k + 1,
                 [streams |-> [st.streams EXCEPT
                                  ![k].option_summary = built.summary],
                  options |-> st.options \o built.options,
                  calls |-> Append(st.calls,
                                [index |-> stream.index, type |-> stream.type,
                                 number |-> number]),
                  stream_number |-> NextNumber(st.stream_number, stream.type),
                  error |-> st.error])

(* The tokens '-sub_charenc <encoding> -i <file_name>' of the subtitle     *)
(* files from position k.                                                  *)
RECURSIVE SubtitleInputsFrom(_, _)
SubtitleInputsFrom(subs, k) ==
    IF k > Len(subs) THEN <<>>
    ELSE <<Lit("-sub_charenc"), Lit(subs[k].encoding), Lit("-i"),
           Lit(subs[k].file_name)>> \o SubtitleInputsFrom(subs, k + 1)

(* The tokens '-map 0:<index>' of the selection from position k. *)
RECURSIVE SelectedMapsFrom(_, _)
SelectedMapsFrom(sel, k) ==
    IF k > Len(sel) THEN <<>>
    ELSE <<Lit("-map"), MapSpec(0, sel[k])>> \o SelectedMapsFrom(sel, k + 1)

(* The position of the file in subtitle_files taken as the number of its   *)
(* input, without the one added for the main input.                        *)
RECURSIVE SubtitleMapsFromZero(_, _)
SubtitleMapsFromZero(subs, k) ==
    IF k > Len(subs) THEN <<>>
    ELSE <<Lit("-map"), MapSpec(k - 1, 0)>> \o SubtitleMapsFromZero(subs, k + 1)

(* The tokens '-map <index + 1>:0' of the subtitle files from position k. *)
RECURSIVE SubtitleMapsFrom(_, _)
SubtitleMapsFrom(subs, k) ==
    IF k > Len(subs) THEN <<>>
    ELSE <<Lit("-map"), MapSpec(k, 0)>> \o SubtitleMapsFrom(subs, k + 1)

(* The subtitle files numbered from 0, whatever the subtitle counter. *)
RECURSIVE SubtitleOptionsFromZero(_, _, _)
SubtitleOptionsFromZero(subs, k, n) ==
    IF k > Len(subs) THEN <<>>
    ELSE <<Opt("-c:s", k - 1)>> \o subs[k].options
             \o SubtitleOptionsFromZero(subs, k + 1, n)

(* The tokens '-c:s:<n>' and the options of the subtitle files from        *)
(* position k, n being the subtitle counter.                               *)
RECURSIVE SubtitleOptionsFrom(_, _, _)
SubtitleOptionsFrom(subs, k, n) ==
    IF k > Len(subs) THEN <<>>
    ELSE <<Opt("-c:s", n)>> \o subs[k].options
             \o SubtitleOptionsFrom(subs, k + 1, n + 1)

(* Container.build_command: the command returned (<<>> when it raises),    *)
(* the streams with their updated option_summary, the calls of             *)
(* build_options and the error raised.                                     *)
build_command(strs, subs, sel) ==
    LET st == OutputStreamsFrom(sel, 1,
                  [streams |-> strs, options |-> <<>>, calls |-> <<>>,
                   stream_number |-> [t \in OutputTypes |-> 0],
                   error |-> "none"])
        head == <<Lit("ffmpeg"), Lit("-nostdin"), Lit("-progress"),
                  Lit("temp_file"), Lit("-v"), Lit("error"), Lit("-y"),
                  Lit("-i"), Lit("file_name")>>
    IN  [command |-> IF st.error /= "none" THEN <<>>
                     ELSE head \o SubtitleInputsFrom(subs, 1)
                            \o SelectedMapsFrom(sel, 1)
                            \o SubtitleMapsFrom(subs, 1)
                            \o st.options
                            \o SubtitleOptionsFrom(subs, 1,
                                   st.stream_number["subtitle"])
                            \o <<Lit("output_name")>>,
         streams |-> st.streams,
         calls |-> st.calls,
         error |-> st.error]

----------------------------------------------------------------------------
(* The inputs *)

(* The codecs a probed stream of a type is given: the default codec of the *)
(* type (the copy case) or another one (the transcode case).               *)
CodecsOf(type) ==
    IF type = "audio" THEN {C_AUDIO, FAKE_CODEC}
    ELSE IF type = "video" THEN {C_VIDEO, FAKE_CODEC}
    ELSE IF type = "subtitle" THEN {C_SUBS, FAKE_CODEC}
    ELSE {FAKE_CODEC}

(* Streams as Stream.from_dict builds them: no custom values. *)
ProbedStreams ==
    {Stream(i, t, c, None, None, Empty) :
        i \in 0..MaxIndex, t \in StreamTypes, c \in Codecs}

(* The stream lists of a container: 1..MaxStreams streams of distinct      *)
(* indexes, in any order of the indexes.                                   *)
StreamLists ==
    UNION {{strs \in [1..n -> ProbedStreams] :
                /\ \A j, k \in 1..n : strs[j].index = strs[k].index => j = k
                /\ \A k \in 1..n : strs[k].codec \in CodecsOf(strs[k].type)} :
           n \in 1..MaxStreams}

(* The index lists given as a selection: 1..MaxSel indexes, in any order,  *)
(* repeated or not, of a stream or not.                                    *)
IndexLists == UNION {[1..n -> 0..MaxIndex] : n \in 1..MaxSel}

(* The subtitle files that may be attached. *)
SubtitleFilePool ==
    {SubtitleFile("a.srt", "ascii"), SubtitleFile("b.srt", "utf-8")}

(* The values of Stream.custom_crf, Stream.custom_bitrate and              *)
(* StreamLabel.bitrate, with the ends of their ranges.                     *)
CrfValues == {None, 0, 11, 51}
BitrateValues == {None, 0, 512, 5000}
LabelBitrates == {Empty, 256}

----------------------------------------------------------------------------
(* The container: construction and operations *)

(* No method has been called yet. *)
NoReturn == [outcome |-> "none", value |-> 0]

NoQuery ==
    /\ argument = <<>>
    /\ returned = NoReturn

(* No file has been probed. *)
NoBuild ==
    /\ file_list = <<>>
    /\ probes = <<>>
    /\ pending = {}
    /\ containers = <<>>
    /\ ended = "none"
    /\ failed = <<>>

(* No menu has been shown. *)
NoMenu ==
    /\ menu = "none"
    /\ current = 0
    /\ handles = <<>>
    /\ launches = <<>>
    /\ edits = <<>>

NoFront == NoBuild /\ NoMenu

(* No container is looked at. *)
NoContainer ==
    /\ streams = <<>>
    /\ selected = <<>>
    /\ subtitle_files = <<>>
    /\ command = <<>>
    /\ calls = <<>>
    /\ error = "none"

(* No job has been launched: Container.__init__ leaves process at None.   *)
NoJobs ==
    /\ line_list = <<>>
    /\ process = <<>>
    /\ microseconds = <<>>
    /\ progress = <<>>
    /\ running = <<>>
    /\ it = 0
    /\ pr_bar = 0
    /\ bars = <<>>
    /\ messages = <<>>
    /\ pc = "idle"
    /\ polled = {}

(* Container.__init__(file_name, duration, streams, selected=...): the    *)
(* selection given, or default_streams when it is None or empty.           *)
Init ==
    /\ streams \in StreamLists
    /\ \E sel \in IndexLists \cup {<<>>} :
           selected = IF sel = <<>> THEN default_streams(streams) ELSE sel
    /\ subtitle_files = <<>>
    /\ command = <<>>
    /\ calls = <<>>
    /\ error = "none"
    /\ NoQuery
    /\ NoJobs
    /\ NoFront

(* menus.select_streams: the prompt converts the input with               *)
(* SelectedStreams.convert, which fails when acceptable_streams raises.    *)
SelectStreams(value) ==
    /\ IF acceptable_streams(streams, value)
       THEN selected' = value /\ error' = "none"
       ELSE selected' = selected /\ error' = "ValueError"
    /\ command' = <<>>
    /\ calls' = <<>>
    /\ UNCHANGED <<streams, subtitle_files>>
    /\ UNCHANGED <<frontVars, queryVars, convertVars>>

(* cli_models.SelectStreams.convert: container.selected = selected. *)
SetSelected(value) ==
    /\ selected' = value
    /\ error' = "none"
    /\ command' = <<>>
    /\ calls' = <<>>
    /\ UNCHANGED <<streams, subtitle_files>>
    /\ UNCHANGED <<frontVars, queryVars, convertVars>>

(* Container.add_subtitle_file *)
AddSubtitleFile(sub) ==
    /\ Len(subtitle_files) < MaxSubs
    /\ subtitle_files' = Append(subtitle_files, sub)
    /\ error' = "none"
    /\ command' = <<>>
    /\ calls' = <<>>
    /\ UNCHANGED <<streams, selected>>
    /\ UNCHANGED <<frontVars, queryVars, convertVars>>

(* menus.remove_subtitles: container.subtitle_files.pop(int(action)) *)
RemoveSubtitles(k) ==
    /\ k \in 1..Len(subtitle_files)
    /\ subtitle_files' = [j \in 1..(Len(subtitle_files) - 1) |->
                             IF j < k THEN subtitle_files[j]
                             ELSE subtitle_files[j + 1]]
    /\ error' = "none"
    /\ command' = <<>>
    /\ calls' = <<>>
    /\ UNCHANGED <<streams, selected>>
    /\ UNCHANGED <<frontVars, queryVars, convertVars>>

(* A command kept between the calls and extended by each of them. *)
BuildCommandExtend ==
    LET built == build_command(streams, subtitle_files, selected)
    IN  /\ command' = command \o built.command
        /\ streams' = built.streams
        /\ calls' = built.calls
        /\ error' = built.error
        /\ UNCHANGED <<selected, subtitle_files>>
        /\ UNCHANGED <<frontVars, queryVars, convertVars>>

(* Container.build_command *)
BuildCommand ==
    LET built == build_command(streams, subtitle_files, selected)
    IN  /\ command' = built.command
        /\ streams' = built.streams
        /\ calls' = built.calls
        /\ error' = built.error
        /\ UNCHANGED <<selected, subtitle_files>>
        /\ UNCHANGED <<frontVars, queryVars, convertVars>>

Next ==
    \/ \E value \in IndexLists : SelectStreams(value)
    \/ \E value \in IndexLists : SetSelected(value)
    \/ \E sub \in SubtitleFilePool : AddSubtitleFile(sub)
    \/ \E k \in 1..MaxSubs : RemoveSubtitles(k)
    \/ BuildCommand

Spec == Init /\ [][Next]_vars

----------------------------------------------------------------------------
(* One stream on its own: Stream(...).build_options(number) *)

StreamInit ==
    /\ \E t \in StreamTypes, c \in Codecs, crf \in CrfValues,
          custom \in BitrateValues, bitrate \in LabelBitrates :
           streams = <<Stream(0, t, c, crf, custom, bitrate)>>
    /\ selected = <<>>
    /\ subtitle_files = <<>>
    /\ command = <<>>
    /\ calls = <<>>
    /\ error = "none"
    /\ NoQuery
    /\ NoJobs
    /\ NoFront

(* Stream.build_options(number): the options returned are kept in         *)
(* command, the call in calls.                                             *)
StreamBuildOptions(number) ==
    LET stream == streams[1]
        built == build_options(stream, number)
    IN  /\ command' = built.options
        /\ streams' = <<[stream EXCEPT !.option_summary = built.summary]>>
        /\ calls' = <<[index |-> stream.index, type |-> stream.type,
                       number |-> number]>>
        /\ UNCHANGED <<selected, subtitle_files, error>>
        /\ UNCHANGED <<frontVars, queryVars, convertVars>>

StreamNext == \E number \in 0..MaxNumber : StreamBuildOptions(number)

SpecStream == StreamInit /\ [][StreamNext]_vars

----------------------------------------------------------------------------
(* A container built without a selection, and acceptable_streams asked    *)
(* about index lists: Container(file_name, duration, streams), then        *)
(* container.acceptable_streams(index_list).                               *)

SelectionInit ==
    /\ streams \in StreamLists
    /\ selected = default_streams(streams)
    /\ subtitle_files = <<>>
    /\ command = <<>>
    /\ calls = <<>>
    /\ error = "none"
    /\ NoQuery
    /\ NoJobs
    /\ NoFront

(* Container.acceptable_streams(index_list): return True, or raise         *)
(* ValueError at the first index that is no stream or no stream of an      *)
(* output type.                                                            *)
AcceptableStreams(index_list) ==
    /\ argument' = index_list
    /\ returned' = IF acceptable_streams(streams, index_list)
                   THEN [outcome |-> "True", value |-> 0]
                   ELSE [outcome |-> "ValueError", value |-> 0]
    /\ UNCHANGED <<frontVars, containerVars, convertVars>>

SelectionNext == \E index_list \in IndexLists : AcceptableStreams(index_list)

SpecSelection == SelectionInit /\ [][SelectionNext]_vars

----------------------------------------------------------------------------
(* The progress feed of a job: the lines 'key=value' that ffmpeg writes    *)
(* to the container's temp_file. A line is a record [key, value]; the      *)
(* value is the number its text denotes, or NA for a text that int()       *)
(* rejects (ffmpeg writes 'N/A' for a time it does not know, and a line    *)
(* read while it is being written may lack its digits).                    *)

NA == -3

Keys == {"out_time_ms", "progress"}

Lines == [key : Keys, value : (0..MaxOut) \cup {NA}]

Feeds == UNION {[1..n -> Lines] : n \in 0..MaxLines}

(* The loop over reversed(line_list) from line k down: the first line of   *)
(* key 'out_time_ms' decides, by its int() or by NoProgressError; without  *)
(* such a line microsec stays 0.                                           *)
RECURSIVE ScanFrom(_, _)
ScanFrom(lines, k) ==
    IF k = 0 THEN [outcome |-> "int", value |-> 0]
    ELSE IF lines[k].key = "out_time_ms"
         THEN IF lines[k].value = NA
              THEN [outcome |-> "NoProgressError", value |-> 0]
              ELSE [outcome |-> "int", value |-> lines[k].value]
    ELSE ScanFrom(lines, k - 1)

(* The feed read without asking the process whether it has exited. *)
read_progress_unpolled(poll, lines) == ScanFrom(lines, Len(lines))

(* Container.progress: poll is the answer of process.poll(), None while    *)
(* the process runs.                                                       *)
read_progress(poll, lines) ==
    IF poll /= None
    THEN [outcome |-> "ProgressFinishedError", value |-> 0]
    ELSE ScanFrom(lines, Len(lines))

(* One launched container and its feed: Container.convert has started the  *)
(* process, the feed holds what ffmpeg has written.                        *)
ProgressInit ==
    /\ streams = <<>>
    /\ selected = <<>>
    /\ subtitle_files = <<>>
    /\ command = <<>>
    /\ calls = <<>>
    /\ error = "none"
    /\ NoQuery
    /\ line_list \in Feeds
    /\ process = <<None>>
    /\ microseconds \in [1..1 -> 1..MaxDuration]
    /\ progress = <<0>>
    /\ running = <<>>
    /\ it = 0
    /\ pr_bar = 0
    /\ bars = <<0>>
    /\ messages = <<>>
    /\ pc = "idle"
    /\ polled = {}
    /\ NoFront

(* The ffmpeg process of job j ends with a return code. *)
Exit(j, code) ==
    /\ j \in DOMAIN process
    /\ process[j] = None
    /\ process' = [process EXCEPT ![j] = code]
    /\ UNCHANGED <<frontVars, containerVars, queryVars, line_list,
                   microseconds,
                   progress, running, it, pr_bar, bars, messages, pc,
                   polled>>

(* container.progress is read. *)
Progress ==
    /\ returned' = read_progress(process[1], line_list)
    /\ UNCHANGED <<frontVars, containerVars, argument, convertVars>>

ProgressNext ==
    \/ \E code \in {0, 1} : Exit(1, code)
    \/ Progress

SpecProgress == ProgressInit /\ [][ProgressNext]_vars

----------------------------------------------------------------------------
(* cli.convert: the loop that polls the launched jobs. Jobs are numbered   *)
(* 1..n in the order of main_menu's list. pr_bar and bars hold the values  *)
(* the loop gives to ProgressBar.update and finish: the value of the bar   *)
(* of all jobs and of the bar of each container.                           *)

(* build_progress_bars: the maximum of the bar of all jobs. *)
total_ms == LET RECURSIVE SumTo(_)
                SumTo(j) == IF j = 0 THEN 0 ELSE microseconds[j] + SumTo(j - 1)
            IN  SumTo(Len(microseconds))

(* The list emptied, in place of the removal of one element. *)
RemoveAll(list, x) == <<>>

(* list.remove(x): the list without its first x. *)
Remove(list, x) ==
    LET at == CHOOSE k \in 1..Len(list) :
                  list[k] = x /\ \A j \in 1..(k - 1) : list[j] /= x
    IN  [k \in 1..(Len(list) - 1) |->
            IF k < at THEN list[k] ELSE list[k + 1]]

(* cli.get_progress(container): the outcome, the difference returned and   *)
(* the new container.progress.                                             *)
get_progress(poll, lines, pre_progress) ==
    LET read == read_progress(poll, lines)
    IN  IF read.outcome = "int"
        THEN [outcome |-> "int", value |-> read.value - pre_progress,
              progress |-> read.value]
        ELSE [outcome |-> read.outcome, value |-> 0,
              progress |-> pre_progress]

(* The failure reported for every exited process, whatever its code. *)
WarningsOfAnyExit(container, outcome) ==
    (IF process[container] /= None
     THEN <<[container |-> container, warning |-> "ffmpeg error"],
            [container |-> container, warning |-> "stderr"]>>
     ELSE <<>>)
    \o (IF outcome = "NoProgressError"
        THEN <<[container |-> container, warning |-> "unable to track"]>>
        ELSE <<>>)

(* The warnings of the except branch. *)
Warnings(container, outcome) ==
    (IF process[container] /= None /\ process[container] /= 0
     THEN <<[container |-> container, warning |-> "ffmpeg error"],
            [container |-> container, warning |-> "stderr"]>>
     ELSE <<>>)
    \o (IF outcome = "NoProgressError"
        THEN <<[container |-> container, warning |-> "unable to track"]>>
        ELSE <<>>)

(* main_menu has returned the launched containers and build_progress_bars  *)
(* has built the bars.                                                     *)
ConvertInit ==
    /\ streams = <<>>
    /\ selected = <<>>
    /\ subtitle_files = <<>>
    /\ command = <<>>
    /\ calls = <<>>
    /\ error = "none"
    /\ NoQuery
    /\ line_list = <<>>
    /\ \E n \in 1..MaxJobs :
           /\ process = [j \in 1..n |-> None]
           /\ microseconds \in [1..n -> 1..MaxDuration]
           /\ progress = [j \in 1..n |-> 0]
           /\ running = [j \in 1..n |-> j]
           /\ bars = [j \in 1..n |-> 0]
    /\ it = 0
    /\ pr_bar = 0
    /\ messages = <<>>
    /\ pc = "poll"
    /\ polled = {}
    /\ NoFront

(* One turn of 'for container in running', the feed of the container       *)
(* holding lines: the iterator hands out the element at its position and   *)
(* moves on by one, also when the body removes the element from the list.  *)
Poll(lines) ==
    /\ pc = "poll"
    /\ it < Len(running)
    /\ LET container == running[it + 1]
           got == get_progress(process[container], lines, progress[container])
       IN  IF got.outcome = "int"
           THEN /\ progress' = [progress EXCEPT ![container] = got.progress]
                /\ bars' = [bars EXCEPT ![container] = @ + got.value]
                /\ pr_bar' = pr_bar + got.value
                /\ UNCHANGED <<running, messages>>
           ELSE /\ messages' = messages \o Warnings(container, got.outcome)
                /\ running' = Remove(running, container)
                /\ bars' = [bars EXCEPT ![container] = microseconds[container]]
                /\ pr_bar' = pr_bar
                               + (microseconds[container] - progress[container])
                /\ UNCHANGED progress
    /\ it' = it + 1
    /\ polled' = polled \cup {running[it + 1]}
    /\ UNCHANGED <<frontVars, containerVars, queryVars, line_list,
                   process,
                   microseconds, pc>>

(* The for loop is through and jobs are left: time.sleep(0.2), and the     *)
(* next pass over running.                                                 *)
Sleep ==
    /\ pc = "poll"
    /\ it >= Len(running)
    /\ running /= <<>>
    /\ it' = 0
    /\ polled' = {}
    /\ UNCHANGED <<frontVars, containerVars, queryVars, line_list,
                   process,
                   microseconds, progress, running, pr_bar, bars, messages,
                   pc>>

(* The for loop is through and no job is left: pr_bar.finish(). *)
Finish ==
    /\ pc = "poll"
    /\ it >= Len(running)
    /\ running = <<>>
    /\ pr_bar' = total_ms
    /\ pc' = "done"
    /\ UNCHANGED <<frontVars, containerVars, queryVars, line_list,
                   process,
                   microseconds, progress, running, it, bars, messages,
                   polled>>

ConvertNext ==
    \/ \E j \in 1..MaxJobs, code \in {0, 1} : Exit(j, code)
    \/ \E lines \in Feeds : Poll(lines)
    \/ Sleep
    \/ Finish

SpecConvert == ConvertInit /\ [][ConvertNext]_vars

(* cli.convert is a sequential loop that nothing stops: the step of the    *)
(* loop that is enabled is taken. The ffmpeg processes are under no such   *)
(* condition.                                                              *)
ConvertFairness ==
    /\ WF_vars(\E lines \in Feeds : Poll(lines))
    /\ WF_vars(Sleep)
    /\ WF_vars(Finish)

SpecConvertFair == ConvertInit /\ [][ConvertNext]_vars /\ ConvertFairness

----------------------------------------------------------------------------
(* cli.build_containers: one Container.from_file per file, run by the      *)
(* threads of an executor and collected in the order of completion. A      *)
(* file name is the rank of the name in the order that sorted() uses. The  *)
(* answer of ffprobe for a file is a record [returncode, duration], the    *)
(* duration being probe_info['format']['duration'] in seconds, or Absent   *)
(* when the format has no such key.                                        *)

Absent == -9

ProbeOutputs ==
    {[returncode |-> 1, duration |-> Absent]}
    \cup {[returncode |-> 0, duration |-> d] :
              d \in {Absent} \cup ((-1)..MaxDuration)}

(* The file lists: some of the names, each once, in any order. *)
FileLists ==
    UNION {{names \in [1..n -> 1..MaxFiles] :
               \A j, k \in 1..n : names[j] = names[k] => j = k} :
           n \in 1..MaxFiles}

(* Container.from_file(file_name), ffprobe answering probe: ProbeError for *)
(* a return code other than 0, KeyError for a format without duration,     *)
(* and else the container, microseconds being int(duration * 1000000).     *)
from_file(file_name, probe) ==
    IF probe.returncode /= 0
    THEN [made |-> "ProbeError", file_name |-> file_name, duration |-> 0,
          microseconds |-> 0]
    ELSE IF probe.duration = Absent
    THEN [made |-> "KeyError", file_name |-> file_name, duration |-> 0,
          microseconds |-> 0]
    ELSE [made |-> "Container", file_name |-> file_name,
          duration |-> probe.duration,
          microseconds |-> probe.duration * 1000000]

(* sorted(list, key=lambda container: container.file_name) *)
RECURSIVE sorted(_)
sorted(list) ==
    IF list = <<>> THEN <<>>
    ELSE LET least == CHOOSE k \in 1..Len(list) :
                          /\ \A j \in 1..Len(list) :
                                 list[k].file_name <= list[j].file_name
                          /\ \A j \in 1..(k - 1) :
                                 list[j].file_name /= list[k].file_name
         IN  <<list[least]>>
             \o sorted([j \in 1..(Len(list) - 1) |->
                           IF j < least THEN list[j] ELSE list[j + 1]])

(* The futures have been submitted, one per file of the list. *)
BuildInit ==
    /\ NoContainer
    /\ NoQuery
    /\ NoJobs
    /\ NoMenu
    /\ file_list \in FileLists
    /\ probes \in [1..Len(file_list) -> ProbeOutputs]
    /\ pending = 1..Len(file_list)
    /\ containers = <<>>
    /\ ended = "none"
    /\ failed = <<>>

(* as_completed hands out the future of file k: its container is          *)
(* appended, its ProbeError is echoed, and any other exception leaves      *)
(* build_containers.                                                       *)
Complete(k) ==
    /\ ended = "none"
    /\ k \in pending
    /\ pending' = pending \ {k}
    /\ LET result == from_file(file_list[k], probes[k])
       IN  IF result.made = "Container"
           THEN /\ containers' = Append(containers, result)
                /\ UNCHANGED <<failed, ended>>
           ELSE IF result.made = "ProbeError"
           THEN /\ failed' = Append(failed, result.file_name)
                /\ UNCHANGED <<containers, ended>>
           ELSE /\ ended' = result.made
                /\ UNCHANGED <<containers, failed>>
    /\ UNCHANGED <<containerVars, queryVars, convertVars, menuVars,
                   file_list, probes>>

(* Every future has been handed out: return sorted(containers, ...). *)
Return ==
    /\ ended = "none"
    /\ pending = {}
    /\ containers' = sorted(containers)
    /\ ended' = "returned"
    /\ UNCHANGED <<containerVars, queryVars, convertVars, menuVars,
                   file_list, probes, pending, failed>>

BuildNext ==
    \/ \E k \in 1..MaxFiles : Complete(k)
    \/ Return

SpecBuild == BuildInit /\ [][BuildNext]_vars

----------------------------------------------------------------------------
(* menus.main_menu (and main_menu of cli.py, the same loop): the menu is   *)
(* shown for each container in turn. Containers are numbered 1..n in the   *)
(* order of the list given. The handle of a container is "None" until      *)
(* Container.convert starts its process ("Popen"), and "terminated" once   *)
(* terminate has been called on it.                                        *)

(* main_menu is called with n containers: running = [], and the for loop   *)
(* sets menu to 'main' for the first of them.                              *)
MenuInit ==
    /\ NoContainer
    /\ NoQuery
    /\ NoBuild
    /\ line_list = <<>>
    /\ process = <<>>
    /\ microseconds = <<>>
    /\ progress = <<>>
    /\ running = <<>>
    /\ it = 0
    /\ pr_bar = 0
    /\ bars = <<>>
    /\ messages = <<>>
    /\ pc = "menu"
    /\ polled = {}
    /\ menu = "main"
    /\ current = 1
    /\ \E n \in 1..MaxJobs :
           /\ handles = [j \in 1..n |-> "None"]
           /\ launches = [j \in 1..n |-> 0]
           /\ edits = [j \in 1..n |-> 0]

(* break: the for loop goes to the next container, or main_menu returns    *)
(* running after the last.                                                 *)
NextContainer ==
    IF current < Len(handles)
    THEN current' = current + 1 /\ menu' = "main" /\ pc' = pc
    ELSE current' = current /\ menu' = menu /\ pc' = "returned"

(* menu == 'main': display_conversion and multiple_choice, which returns   *)
(* one of 'c', 's', 'e', 'q'.                                              *)
Choose(response) ==
    /\ pc = "menu"
    /\ menu = "main"
    /\ response = "e" => edits[current] < MaxEdits
    /\ menu' = response
    /\ UNCHANGED <<containerVars, queryVars, buildVars, line_list, process,
                   microseconds, progress, running, it, pr_bar, bars,
                   messages, pc, polled, current, handles, launches, edits>>

(* The handles after the terminate of Quit left out. *)
QuitHandlesKept == handles

(* running_container.process.terminate() for each container of running. *)
QuitHandles ==
    [j \in DOMAIN handles |->
        IF Contains(running, j) THEN "terminated" ELSE handles[j]]

(* menu == 'c' without the break: the menu is shown again for the same     *)
(* container.                                                              *)
ConvertAndStay ==
    /\ pc = "menu"
    /\ menu = "c"
    /\ launches[current] < 2
    /\ handles' = [handles EXCEPT ![current] = "Popen"]
    /\ launches' = [launches EXCEPT ![current] = @ + 1]
    /\ running' = Append(running, current)
    /\ menu' = "main"
    /\ UNCHANGED <<containerVars, queryVars, buildVars, line_list, process,
                   microseconds, progress, it, pr_bar, bars, messages, pc,
                   polled, current, edits>>

(* menu == 'c': container.convert(), running.append(container), break. *)
Convert ==
    /\ pc = "menu"
    /\ menu = "c"
    /\ handles' = [handles EXCEPT ![current] = "Popen"]
    /\ launches' = [launches EXCEPT ![current] = @ + 1]
    /\ running' = Append(running, current)
    /\ NextContainer
    /\ UNCHANGED <<containerVars, queryVars, buildVars, line_list, process,
                   microseconds, progress, it, pr_bar, bars, messages,
                   polled, edits>>

(* menu == 's': break. *)
Skip ==
    /\ pc = "menu"
    /\ menu = "s"
    /\ NextContainer
    /\ UNCHANGED <<containerVars, queryVars, buildVars, line_list, process,
                   microseconds, progress, running, it, pr_bar, bars,
                   messages, polled, handles, launches, edits>>

(* menu == 'e': edit_menu(container), then the main menu again. *)
Edit ==
    /\ pc = "menu"
    /\ menu = "e"
    /\ edits' = [edits EXCEPT ![current] = @ + 1]
    /\ menu' = "main"
    /\ UNCHANGED <<containerVars, queryVars, buildVars, line_list, process,
                   microseconds, progress, running, it, pr_bar, bars,
                   messages, pc, polled, current, handles, launches>>

(* menu == 'q': terminate the processes started, sys.exit. *)
Quit ==
    /\ pc = "menu"
    /\ menu = "q"
    /\ handles' = QuitHandles
    /\ pc' = "exit"
    /\ UNCHANGED <<containerVars, queryVars, buildVars, line_list, process,
                   microseconds, progress, running, it, pr_bar, bars,
                   messages, polled, menu, current, launches, edits>>

MenuNext ==
    \/ \E response \in {"c", "s", "e", "q"} : Choose(response)
    \/ Convert
    \/ Skip
    \/ Edit
    \/ Quit

SpecMenu == MenuInit /\ [][MenuNext]_vars

----------------------------------------------------------------------------
(* Reading a command *)

(* Container.build_command has returned a command. *)
Built == command /= <<>>

IsMainMap(t) == t.s = "i:n" /\ t.a = 0

(* The stream indexes of the '-map 0:<index>' directives, in their order. *)
MainMaps ==
    LET maps == SelectSeq(command, IsMainMap)
    IN  [k \in 1..Len(maps) |-> maps[k].b]

(* The mapped indexes that are streams of a kind, in their order. *)
MappedOfKind(kind) ==
    LET OfKind(i) == /\ i \in DOMAIN streams_dict(streams)
                     /\ streams_dict(streams)[i].type = kind
    IN  SelectSeq(MainMaps, OfKind)

(* The calls of build_options on streams of a kind, in their order. *)
CallsOfKind(kind) ==
    LET OfKind(c) == c.type = kind
    IN  SelectSeq(calls, OfKind)

(* The streams of a kind that the selection holds. *)
SelectedOfKind(kind) ==
    {k \in 1..Len(streams) :
        streams[k].type = kind /\ Contains(selected, streams[k].index)}

(* The slots of the codec directives '<opt>:<n>' of a command. *)
SlotsOf(opt) ==
    LET IsOpt(t) == t.s = opt
        opts == SelectSeq(command, IsOpt)
    IN  [k \in 1..Len(opts) |-> opts[k].a]

CodecOpt(kind) ==
    IF kind = "audio" THEN "-c:a" ELSE IF kind = "video" THEN "-c:v" ELSE "-c:s"

(* A selection as the data model has it: indexes of streams of an output   *)
(* type, none repeated.                                                    *)
ProperSelection ==
    /\ acceptable_streams(streams, selected)
    /\ \A j, k \in 1..Len(selected) : selected[j] = selected[k] => j = k

----------------------------------------------------------------------------
(* The claims *)

(* C1: the command has exactly one '-map 0:<index>' directive per selected *)
(* stream index, and these directives are in ascending order of the index, *)
(* whatever the order of the selection and of the streams. Stated for the  *)
(* selections of the data model (ProperSelection), in any order.           *)
C1_MapsAscending ==
    (Built /\ ProperSelection) =>
        /\ Range(MainMaps) = Range(selected)
        /\ Len(MainMaps) = Cardinality(Range(selected))
        /\ \A j, k \in 1..Len(MainMaps) : j < k => MainMaps[j] < MainMaps[k]

(* C2: for each kind, the k-th mapped stream of the kind (from 0) is the   *)
(* stream whose codec options carry output slot k. Stated for the          *)
(* selections of the data model (ProperSelection), in any order.           *)
C2_OptionsFollowMaps ==
    (Built /\ ProperSelection) =>
        \A kind \in OutputTypes :
            /\ Len(MappedOfKind(kind)) = Len(CallsOfKind(kind))
            /\ \A c \in Range(CallsOfKind(kind)) :
                   MappedOfKind(kind)[c.number + 1] = c.index

(* C3: the n selected streams of one kind receive the output slots 0, 1,   *)
(* ..., n-1, none shared or skipped, and the counter of a kind is not      *)
(* advanced by the streams of another kind.                                *)
C3_SlotsPerKind ==
    Built =>
        \A kind \in OutputTypes :
            LET n == Cardinality(SelectedOfKind(kind))
                made == CallsOfKind(kind)
                slots == SlotsOf(CodecOpt(kind))
            IN  /\ Len(made) = n
                /\ \A k \in 1..n : made[k].number = k - 1
                /\ Len(slots) >= n
                /\ \A k \in 1..n : slots[k] = k - 1

(* C3 witness: a command built for two selected streams of one kind, the   *)
(* second of which was given slot 1.                                       *)
C3_Witness ==
    /\ Built
    /\ \E kind \in OutputTypes :
           /\ Cardinality(SelectedOfKind(kind)) >= 2
           /\ \E c \in Range(calls) : c.type = kind /\ c.number = 1

----------------------------------------------------------------------------
(* The claims on Stream.build_options, for one stream on its own           *)
(* (SpecStream): the stream is streams[1], the slot it was given is        *)
(* calls[1].number and the options returned are in command.                *)

OptionsBuilt == calls /= <<>>
TheStream == streams[1]
TheNumber == calls[1].number

(* The options of a transcode of a video stream with a crf. *)
VideoTranscode(number, crf) ==
    <<Opt("-c:v", number), Lit("libx264"), Lit("-preset"), Lit("slow"),
      Lit("-crf"), Str(crf), Lit("-pix_fmt"), Lit("yuv420p")>>

(* The options of a transcode of an audio stream with a bitrate. *)
AudioTranscode(number, bitrate) ==
    <<Opt("-c:a", number), Lit(C_AUDIO), Opt("-b:a", number), Kbit(bitrate)>>

(* The copy directive of a kind for a slot. *)
CopyDirective(kind, number) == <<Opt(CodecOpt(kind), number), Lit("copy")>>

Transcoded ==
    /\ Len(command) >= 2
    /\ command[2] /= Lit("copy")
    /\ TheStream.option_summary.s = "transcode"

(* C4: a video stream with a custom crf of 0..51, or with a source codec   *)
(* other than the default video codec, is transcoded to the default video  *)
(* codec with the custom crf when it is set and the default crf otherwise. *)
C4_VideoCrf ==
    (/\ OptionsBuilt
     /\ TheStream.type = "video"
     /\ (TheStream.custom_crf \in 0..51 \/ TheStream.codec /= C_VIDEO)) =>
        LET crf == IF TheStream.custom_crf /= None THEN TheStream.custom_crf
                   ELSE CRF
        IN  /\ command = VideoTranscode(TheNumber, crf)
            /\ TheStream.option_summary = TranscodeSummary(C_VIDEO, crf)

(* C5: the bitrate of a transcoded audio stream is the custom bitrate when *)
(* it is set (0..5000), else the bitrate of the labels when it is present, *)
(* else the default bitrate.                                               *)
C5_AudioBitrate ==
    (/\ OptionsBuilt
     /\ TheStream.type = "audio"
     /\ Transcoded) =>
        LET bitrate == IF TheStream.custom_bitrate /= None
                       THEN TheStream.custom_bitrate
                       ELSE IF TheStream.bitrate /= Empty
                       THEN TheStream.bitrate
                       ELSE BITRATE
        IN  /\ command = AudioTranscode(TheNumber, bitrate)
            /\ TheStream.option_summary = TranscodeSummary(C_AUDIO, bitrate)

(* C6: build_options yields the copy directive of the slot and the summary *)
(* 'copy' exactly for a video stream without custom crf of the default     *)
(* video codec and for an audio stream without custom bitrate of the       *)
(* default audio codec; every other video or audio stream is transcoded.   *)
C6_CopyExactlyWhen ==
    (OptionsBuilt /\ TheStream.type \in {"video", "audio"}) =>
        LET suitable ==
                \/ /\ TheStream.type = "video"
                   /\ TheStream.custom_crf = None
                   /\ TheStream.codec = C_VIDEO
                \/ /\ TheStream.type = "audio"
                   /\ TheStream.custom_bitrate = None
                   /\ TheStream.codec = C_AUDIO
            copied ==
                /\ command = CopyDirective(TheStream.type, TheNumber)
                /\ TheStream.option_summary = CopySummary
        IN  /\ copied <=> suitable
            /\ ~suitable => Transcoded

C8_SubtitleCopy ==
    (OptionsBuilt /\ TheStream.type = "subtitle"
                  /\ TheStream.codec = C_SUBS) =>
        /\ command = CopyDirective("subtitle", TheNumber)
        /\ TheStream.option_summary = CopySummary

----------------------------------------------------------------------------
(* The claims on the selection of a container (Spec) *)

(* Every index of an index list is the index of a stream. *)
IndexesOfStreams(strs, index_list) ==
    \A i \in Range(index_list) : i \in DOMAIN streams_dict(strs)

(* C9: a selection with an index that is no index of a stream is rejected  *)
(* and leaves the selection as it was: no step gives the container such a  *)
(* selection, and no command is compiled from one.                         *)
C9_InvalidSelectionRejected ==
    [][/\ selected' /= selected => IndexesOfStreams(streams', selected')
       /\ command' /= <<>> => IndexesOfStreams(streams', selected')]_vars

(* C10: in every reachable state every index of Container.selected is the  *)
(* index of a stream of Container.streams.                                 *)
C10_SelectedAreStreams == IndexesOfStreams(streams, selected)

----------------------------------------------------------------------------
(* Claims about the selection of a container (SpecSelection) *)

(* acceptable_streams has been called. *)
Asked == returned.outcome /= "none"

(* Some stream of the container has the index i and an output type. *)
IsOutputIndex(i) ==
    \E k \in 1..Len(streams) :
        streams[k].index = i /\ streams[k].type \in OutputTypes

FirstOfType(type) ==
    {k \in 1..Len(streams) :
        /\ streams[k].type = type
        /\ \A j \in 1..(k - 1) : streams[j].type /= type}

DefaultPositions == FirstOfType("audio") \cup FirstOfType("video")

(* C12: a Container constructed without a selection selects exactly the    *)
(* index of the first audio stream and the index of the first video        *)
(* stream, in the order of the stream list, each only when the container   *)
(* has such a stream, and no other index.                                  *)
C12_DefaultSelection ==
    /\ Len(selected) = Cardinality(DefaultPositions)
    /\ \A k \in DefaultPositions :
           selected[Cardinality({j \in DefaultPositions : j <= k})]
               = streams[k].index

(* A video stream ahead of an audio stream, both selected by default. *)
C12_Witness ==
    /\ Len(streams) = 2
    /\ streams[1].type = "video"
    /\ streams[2].type = "audio"
    /\ selected = <<streams[1].index, streams[2].index>>

----------------------------------------------------------------------------
(* Claims about the command of a container with subtitle files (Spec) *)

(* C13: build_command is idempotent: called again with nothing changed in  *)
(* between, it returns the token list it returned before. (Every other     *)
(* operation clears command, so a step from a built command to a built     *)
(* command is a second call directly after a first.)                       *)
C13_BuildIdempotent ==
    [][(command /= <<>> /\ command' /= <<>>) => command' = command]_vars

(* A command built from a selected stream and a subtitle file, every call  *)
(* of build_options recorded in the stream's option_summary.               *)
C13_Witness ==
    /\ Built
    /\ Len(subtitle_files) >= 1
    /\ calls /= <<>>
    /\ \A k \in 1..Len(calls) :
           streams_dict(streams)[calls[k].index].option_summary /= NoSummary

(* The tokens ahead of the subtitle inputs: 'ffmpeg' ... '-i' file_name. *)
MainInputEnd == 9

(* The positions of a token in the command. *)
PositionsOf(token) == {p \in 1..Len(command) : command[p] = token}

(* C14: for the subtitle file at position i of subtitle_files (counted     *)
(* from 0, in the order of insertion), the command holds                   *)
(* '-sub_charenc <encoding> -i <file_name>' after the main input, the      *)
(* files in the order of insertion, and '-map <i+1>:0' once, after every   *)
(* '-map 0:<index>' directive, the files again in the order of insertion.  *)
C14_SubtitleInputsAndMaps ==
    Built =>
        \A i \in 0..(Len(subtitle_files) - 1) :
            LET sub == subtitle_files[i + 1]
                at == MainInputEnd + 4 * i
            IN  /\ SubSeq(command, at + 1, at + 4) =
                       <<Lit("-sub_charenc"), Lit(sub.encoding), Lit("-i"),
                         Lit(sub.file_name)>>
                /\ \E p \in 2..Len(command) :
                       /\ PositionsOf(MapSpec(i + 1, 0)) = {p}
                       /\ command[p - 1] = Lit("-map")
                       /\ \A q \in 1..Len(command) :
                              IsMainMap(command[q]) => q < p
                       /\ \A j \in 0..(i - 1) :
                              \A q \in PositionsOf(MapSpec(j + 1, 0)) : q < p

(* Two different subtitle files and a selected stream of index 0. *)
C14_Witness ==
    /\ Built
    /\ Len(subtitle_files) = 2
    /\ subtitle_files[1] /= subtitle_files[2]
    /\ Contains(selected, 0)

(* C15: the subtitle files receive the subtitle output slots s, s+1, ...   *)
(* in the order of insertion, s being the number of selected subtitle      *)
(* streams of the main input; the directive of each file is followed by    *)
(* the file's options, and no subtitle slot is used twice.                 *)
C15_SubtitleFileSlots ==
    Built =>
        LET s == Cardinality(SelectedOfKind("subtitle"))
            n == Len(subtitle_files)
            slots == SlotsOf("-c:s")
        IN  /\ \A i \in 0..(n - 1) :
                   LET at == Len(command) - 1 - 2 * (n - i)
                   IN  /\ command[at + 1] = Opt("-c:s", s + i)
                       /\ command[at + 2] = Lit(C_SUBS)
            /\ Len(slots) = s + n
            /\ \A j, k \in 1..Len(slots) : slots[j] = slots[k] => j = k

(* Two subtitle files after a selected subtitle stream. *)
C15_Witness ==
    /\ Built
    /\ Len(subtitle_files) = 2
    /\ Cardinality(SelectedOfKind("subtitle")) >= 1
    /\ SlotsOf("-c:s") = <<0, 1, 2>>

----------------------------------------------------------------------------
(* Claims about the slot of a stream's options (SpecStream) *)

(* C16: for a stream of type audio, video or subtitle, of any source codec *)
(* (copied or transcoded) and any slot n given to build_options, the first *)
(* token returned is the codec directive of the stream's kind and its last *)
(* ':'-separated field is n.                                               *)
C16_FirstTokenSlot ==
    (OptionsBuilt /\ TheStream.type \in OutputTypes) =>
        /\ command /= <<>>
        /\ command[1].s = CodecOpt(TheStream.type)
        /\ command[1].a = TheNumber

(* A transcoded subtitle stream given the highest slot. *)
C16_Witness ==
    /\ OptionsBuilt
    /\ TheStream.type = "subtitle"
    /\ TheStream.codec = FAKE_CODEC
    /\ TheNumber = MaxNumber
    /\ command[1] = Opt("-c:s", MaxNumber)

----------------------------------------------------------------------------
(* Claims about the progress read from a feed (SpecProgress) *)

(* A line 'out_time_ms=<integer>'. *)
WellFormed(line) == line.key = "out_time_ms" /\ line.value /= NA

(* The positions of the well-formed lines of the feed. *)
WellFormedLines == {k \in 1..Len(line_list) : WellFormed(line_list[k])}

(* C17: while the process of a job runs, reading its progress yields the   *)
(* integer of the most recent well-formed 'out_time_ms=<integer>' line of  *)
(* the feed, for every feed with at least one such line, whatever other    *)
(* lines (malformed out_time_ms lines included) come before or after it.   *)
C17_MostRecentWellFormed ==
    (/\ returned.outcome /= "none"
     /\ process[1] = None
     /\ WellFormedLines /= {}) =>
        LET last == CHOOSE k \in WellFormedLines :
                        \A j \in WellFormedLines : j <= k
        IN  returned = [outcome |-> "int", value |-> line_list[last].value]

----------------------------------------------------------------------------
(* Claims about the poll loop (SpecConvert) *)

(* The jobs launched, and those still in the list of tracked jobs. *)
Jobs == DOMAIN process

Tracked(list) == {list[k] : k \in 1..Len(list)}

C19_RunningStaysTracked ==
    [][\A j \in Tracked(running) :
          j \notin Tracked(running') => process[j] /= None]_vars

Contribution(j) ==
    IF j \in Tracked(running) THEN progress[j] ELSE microseconds[j]

RECURSIVE ContributionsTo(_)
ContributionsTo(j) ==
    IF j = 0 THEN 0 ELSE Contribution(j) + ContributionsTo(j - 1)

(* The first half of C21 on its own: the aggregate bar is the sum of the   *)
(* contributions, a job that has left the list counting for its duration.  *)
ContributionsFrozen ==
    pc = "poll" => pr_bar = ContributionsTo(Len(process))

WarningsAbout(j, warning) ==
    {k \in 1..Len(messages) :
        messages[k] = [container |-> j, warning |-> warning]}

(* The poll loop has found the process of job j exited: the job has left   *)
(* the list, and not for a feed it could not read.                         *)
FoundExited(j) ==
    /\ j \notin Tracked(running)
    /\ WarningsAbout(j, "unable to track") = {}

(* C22: a job whose process the poll loop has found exited is classified   *)
(* by its exit code: for a nonzero code the failure message is written     *)
(* exactly once, directly followed by the captured stderr of the process;  *)
(* for the code 0, and for a job not found exited, no failure is written.  *)
C22_ClassifiedByExitCode ==
    \A j \in Jobs :
        IF FoundExited(j) /\ process[j] /= 0
        THEN /\ Cardinality(WarningsAbout(j, "ffmpeg error")) = 1
             /\ Cardinality(WarningsAbout(j, "stderr")) = 1
             /\ \A k \in WarningsAbout(j, "ffmpeg error") :
                    k + 1 \in WarningsAbout(j, "stderr")
        ELSE /\ WarningsAbout(j, "ffmpeg error") = {}
             /\ WarningsAbout(j, "stderr") = {}

(* The loop is over, one job found exited with the code 1 and reported,    *)
(* the other with the code 0 and not reported.                             *)
C22_Witness ==
    /\ pc = "done"
    /\ Len(process) = 2
    /\ process[1] = 1 /\ FoundExited(1)
    /\ process[2] = 0 /\ FoundExited(2)
    /\ Len(messages) = 2

(* C23: a job that completes or fails at a poll affects no other job: only *)
(* the job polled leaves the list of tracked jobs, and when a pass of the  *)
(* loop ends (the loop goes to sleep and starts over), every job still in  *)
(* the list has been polled in that pass.                                  *)
C23_OthersStillPolled ==
    [][/\ \A j \in Tracked(running) :
              j \notin Tracked(running') => j \in polled' \ polled
       /\ it' < it => Tracked(running) \subseteq polled]_vars

----------------------------------------------------------------------------
(* Claims about the progress of an exited process (SpecProgress) *)

(* C24: reading the progress of a container whose process has exited       *)
(* (poll answers a value other than None) raises ProgressFinishedError,    *)
(* whatever the feed holds, and returns no progress value.                 *)
C24_FinishedRaises ==
    [][(process[1] /= None /\ returned' /= returned) =>
          returned' = [outcome |-> "ProgressFinishedError", value |-> 0]]_vars

(* The error raised although the feed ends with a well-formed line. *)
C24_Witness ==
    /\ process[1] /= None
    /\ returned.outcome = "ProgressFinishedError"
    /\ line_list /= <<>>
    /\ WellFormed(line_list[Len(line_list)])

----------------------------------------------------------------------------
(* Claims about the probes (SpecBuild) *)

(* The files whose probe has completed. *)
Completed == (1..Len(file_list)) \ pending

(* ffprobe succeeded and told a duration above 0. *)
ProbeSucceeded(k) ==
    /\ probes[k].returncode = 0
    /\ probes[k].duration /= Absent
    /\ probes[k].duration > 0

(* C25: a probe whose format.duration is absent, zero or negative is       *)
(* rejected with a probe failure for that file, so that every container    *)
(* built has a duration above 0.                                           *)
C25_DurationPositive ==
    /\ \A k \in Completed :
           (probes[k].returncode = 0 /\ ~ProbeSucceeded(k)) =>
               Contains(failed, file_list[k])
    /\ \A j \in 1..Len(containers) : containers[j].duration > 0

(* C26: build_containers returns, whatever the order in which the probes   *)
(* complete, and what it returns is the containers of the files whose      *)
(* probe succeeded, one each and sorted by file name; a failed probe of    *)
(* one file does not keep the containers of the others from being          *)
(* returned.                                                               *)
C26_OnePerSucceededProbe ==
    /\ ended \in {"none", "returned"}
    /\ ended = "returned" =>
           /\ Len(containers) =
                  Cardinality({k \in 1..Len(file_list) : ProbeSucceeded(k)})
           /\ \A k \in 1..Len(file_list) :
                  ProbeSucceeded(k) <=>
                      \E j \in 1..Len(containers) :
                          containers[j].file_name = file_list[k]
           /\ \A j \in 1..(Len(containers) - 1) :
                  containers[j].file_name < containers[j + 1].file_name

----------------------------------------------------------------------------
(* Claims about the main menu (SpecMenu) *)

(* The containers whose conversion has been started. *)
Launched == {j \in DOMAIN launches : launches[j] > 0}

(* C27: when the user chooses Quit in the main menu, terminate is called   *)
(* on the process of every container started earlier in that run of the    *)
(* menu, no container is started any more, and the program exits: nothing  *)
(* follows the exit, neither the return of main_menu nor the poll loop.    *)
C27_QuitTerminatesAll ==
    /\ [](pc = "exit" =>
             \A j \in DOMAIN handles :
                 IF j \in Launched THEN handles[j] = "terminated"
                 ELSE handles[j] = "None")
    /\ [][pc /= "exit"]_vars

(* Quit chosen at the second container after the first was started. *)
C27_Witness ==
    /\ pc = "exit"
    /\ current = 2
    /\ Launched = {1}
    /\ handles = <<"terminated", "None">>

(* C28: in a run of the main menu each container is launched at most       *)
(* once, its process handle is None until that launch, the edit menu is    *)
(* not entered for it after its launch, and running (the list returned)    *)
(* holds the launched containers, each once, in the order of launch.       *)
C28_LaunchedOnce ==
    /\ [](/\ \A j \in DOMAIN handles :
                /\ launches[j] <= 1
                /\ launches[j] = 0 <=> handles[j] = "None"
          /\ Tracked(running) = Launched
          /\ \A k \in 1..(Len(running) - 1) : running[k] < running[k + 1])
    /\ [][\A j \in DOMAIN handles :
              edits'[j] /= edits[j] =>
                  launches[j] = 0 /\ launches'[j] = 0]_vars

(* main_menu has returned both containers, the first of them edited        *)
(* ahead of its launch.                                                    *)
C28_Witness ==
    /\ pc = "returned"
    /\ running = <<1, 2>>
    /\ edits[1] = 1
    /\ handles = <<"Popen", "Popen">>

----------------------------------------------------------------------------
(* Claims about the end of the poll loop (SpecConvertFair) *)

(* The process of every launched job has exited. *)
AllExited == \A j \in Jobs : process[j] /= None

(* The poll loop has seen job j exited or has given up tracking it. *)
Observed(j) ==
    process[j] /= None \/ WarningsAbout(j, "unable to track") /= {}

----------------------------------------------------------------------------
(* Claims about the command of an accepted selection (Spec) *)

(* The number of codec directives of the streams of the main input: the    *)
(* '-c:a', '-c:v' and '-c:s' directives less those of the subtitle files.  *)
StreamDirectives ==
    Len(SlotsOf("-c:a")) + Len(SlotsOf("-c:v")) + Len(SlotsOf("-c:s"))
        - Len(subtitle_files)

(* C30: for every selection that acceptable_streams accepts, lists that    *)
(* repeat an index included, build_command does not fail and its command   *)
(* has as many '-map 0:<index>' directives as codec directives of streams, *)
(* one codec directive for every mapped output stream.                     *)
C30_MapsMatchDirectives ==
    acceptable_streams(streams, selected) =>
        /\ error /= "KeyError"
        /\ Built => Len(MainMaps) = StreamDirectives
====
